---------------------------- MODULE Spec2Model ----------------------------
(***************************************************************************)
(* A model of the MoreRight MCP clients: the Anthropic tool-orchestration  *)
(* loop (hybrid_chat / handle_tool_use_response), the OpenAI tool wrapper  *)
(* and chat loop, the wallet challenge/sign/verify flow and the pure       *)
(* function prune_conversation.                                            *)
(*                                                                         *)
(* Specifications:                                                         *)
(*   Spec      a chat session of either client; the LLM answers from a     *)
(*             small set of responses, the session is unbounded in turns   *)
(*   TurnSpec  the first user turn of a session, with every kind of final  *)
(*             answer                                                      *)
(*   BatchSpec the first user turn of a session with one tool batch, the   *)
(*             LLM's tool-use response and the tools' outcomes drawn from  *)
(*             a rich set                                                  *)
(*   LiveSpec  Spec with weak fairness of the session's steps              *)
(*   PruneSpec prune_conversation applied to bounded windows and caps      *)
(*   SummarySpec  prune_conversation applied to windows of many summary    *)
(*             lines and to a 12-turn alternating conversation             *)
(*   AuthSpec  either client from the start of main: wallet setup, the     *)
(*             authenticator, then the chat's first turn                   *)
(*   ChoiceSpec  main.py's get_client_choice, for every set of configured  *)
(*             API keys and every short sequence of menu inputs            *)
(***************************************************************************)
EXTENDS Integers, Sequences, FiniteSets, TLC

VARIABLES
    scope,              \* "session" | "turn" | "batch" | "prune" | "auth" | "choice": what is explored
    client,             \* "anthropic" | "openai": main.py's client_type ("none" before the choice)
    auth_token,         \* hybrid_chat's auth_token / UserContext.auth_token
    pc,                 \* position of the single thread of control
    messages,           \* hybrid_chat's messages (the conversation store)
    user_message,       \* hybrid_chat's user_message of the current turn
    h_messages,         \* handle_tool_use_response's local messages list
    assistant_message,  \* handle_tool_use_response's assistant_message
    all_results,        \* handle_tool_use_response's all_results
    idx,                \* position of the for loop in tool_use_blocks (1-based)
    sent,               \* the messages argument of the latest client.messages.create
    lastResp,           \* the latest LLM response as it was received
    firstResp,          \* the first LLM response of the current turn
    rounds,             \* tool batches completed in the current turn (saturates at MaxRounds)
    calls,              \* LLM calls made in the current turn (saturates at MaxRounds + 1)
    toolResps,          \* responses with stop_reason "tool_use" received this turn (saturates)
    apiErrors,          \* whether an LLM call of the current turn raised APIError
    surfaced,           \* texts printed as "Assistant: ..." in the current turn
    toolLog,            \* remote tool invocations of the current batch / agent run: name, args
    outcomeLog,         \* what each of those invocations returned or raised
    exitCause,          \* why the chat loop was left: "none" | "quit" | the exception's origin
    o_invoke,           \* openai_client.py: the latest on_invoke_tool call, its kwargs and its return
    p_messages,         \* prune_conversation: the window, before and then after a call
    p_before,           \* the window the latest prune_conversation call was given
    p_cap,              \* prune_conversation's max_messages
    p_runs,             \* prune_conversation calls made on the window
    wallet_address,     \* main's wallet_address / UserContext.wallet_address
    private_key,        \* the signing key in use: PyNone, "valid" or "invalid"
    a_path,             \* how the wallet was set up: "env" | "create" | "import" | "address" | "skip"
    a_log,              \* the remote tools the authenticator invoked, in order
    a_challenge,        \* what get_wallet_challenge answered
    a_verify,           \* what verify_wallet_signature answered
    a_ret,              \* what verify_wallet_with_signature / verify_wallet returned
    a_report,           \* what startup told the user about the wallet: "none" | "verified" | "failed"
    env_keys,           \* the API keys the process environment holds
    anthropic_key_set,  \* get_client_choice's anthropic_key_set
    openai_key_set,     \* get_client_choice's openai_key_set
    c_inputs,           \* the menu inputs get_client_choice has read, in order
    c_setups            \* how many times get_client_choice ran setup_env_file

chatVars == << messages, user_message, h_messages, assistant_message, all_results, idx,
               sent, lastResp, firstResp, rounds, calls, toolResps, apiErrors, surfaced,
               toolLog, outcomeLog, o_invoke >>

pruneVars == << p_messages, p_before, p_cap, p_runs >>

authVars == << wallet_address, private_key, a_path, a_log, a_challenge, a_verify, a_ret,
               a_report >>

choiceVars == << env_keys, anthropic_key_set, openai_key_set, c_inputs, c_setups >>

vars == << scope, client, auth_token, pc, exitCause, chatVars, pruneVars, authVars,
           choiceVars >>

-----------------------------------------------------------------------------
(* Bounds of the model *)

\* Most tool_use blocks in one response of the rich set
MaxBlocks == 3
\* The per-turn counters rounds / toolResps stop counting here
MaxRounds == 3

-----------------------------------------------------------------------------
(* Python values *)

\* Python's None
PyNone == "<None>"

\* bool(x) of an Optional[str]
Truthy(x) == x # PyNone /\ x # ""

Min(a, b) == IF a <= b THEN a ELSE b

\* list[-k:]
SliceLast(s, k) ==
    IF k = 0 \/ Len(s) <= k THEN s ELSE SubSeq(s, Len(s) - k + 1, Len(s))

\* list[:-k]
SliceButLast(s, k) ==
    IF k = 0 \/ Len(s) <= k THEN << >> ELSE SubSeq(s, 1, Len(s) - k)

(* A str is a sequence of pieces: n characters of a source string src, or a *)
(* literal of n characters.                                                 *)
Plain(src, n) == << [kind |-> "src", src |-> src, n |-> n] >>
Lit(s, n) == << [kind |-> "lit", src |-> s, n |-> n] >>

RECURSIVE TextLen(_)
\* len(text)
TextLen(t) == IF t = << >> THEN 0 ELSE Head(t).n + TextLen(Tail(t))

RECURSIVE Take(_, _)
\* text[:k]
Take(t, k) ==
    IF t = << >> \/ k <= 0 THEN << >>
    ELSE IF Head(t).n <= k THEN << Head(t) >> \o Take(Tail(t), k - Head(t).n)
    ELSE << [Head(t) EXCEPT !.n = k] >>

\* Sources that hold white space only
BlankSources == {"blank"}

\* not text.strip()
IsBlank(t) ==
    \A i \in 1..Len(t) :
        \/ t[i].n = 0
        \/ t[i].kind = "src" /\ t[i].src \in BlankSources
        \/ t[i].kind = "lit" /\ t[i].src = "\n"

RECURSIVE JoinNL(_)
\* "\n".join(texts)
JoinNL(ts) ==
    IF ts = << >> THEN << >>
    ELSE IF Len(ts) = 1 THEN ts[1]
    ELSE ts[1] \o Lit("\n", 1) \o JoinNL(Tail(ts))

(* A dict of str to str is the set of its (key, value) pairs. *)
Keys(d) == { p[1] : p \in d }
Get(d, k) == (CHOOSE p \in d : p[1] = k)[2]
\* d[k] = v
SetKey(d, k, v) == { p \in d : p[1] # k } \cup { << k, v >> }

-----------------------------------------------------------------------------
(* Content blocks and turns *)

TextBlock(t) == [type |-> "text", text |-> t]
ToolUseBlock(id, name, input) ==
    [type |-> "tool_use", id |-> id, name |-> name, input |-> input]

\* The authentication-exempt tool names
ExemptTools == {"get_wallet_challenge", "verify_wallet_signature"}

\* Character limit of a tool result
ResultLimit == 500

\* tool_use_blocks = [b for b in assistant_message["content"] if b.type == "tool_use"]
ToolUseBlocks(content) == SelectSeq(content, LAMBDA b : b.type = "tool_use")

RECURSIVE ToolUsePositions(_, _)
\* The positions in content of the blocks of tool_use_blocks, in order
ToolUsePositions(content, from) ==
    IF from > Len(content) THEN << >>
    ELSE IF content[from].type = "tool_use"
         THEN << from >> \o ToolUsePositions(content, from + 1)
         ELSE ToolUsePositions(content, from + 1)

\* [block.text for block in content if block.type == "text"]
TextsOf(content) ==
    LET blocks == SelectSeq(content, LAMBDA b : b.type = "text")
    IN [i \in 1..Len(blocks) |-> blocks[i].text]

\* final_text = "\n".join(block.text for block in response.content if block.type == "text")
FinalText(content) == JoinNL(TextsOf(content))


-----------------------------------------------------------------------------
(* The environment: user input, the LLM API, the remote tools *)

NoMsg == [role |-> "none", content |-> << >>]
NoResp == [kind |-> "none", stop_reason |-> "", content |-> << >>]

Response(stop, content) == [kind |-> "response", stop_reason |-> stop, content |-> content]
\* client.messages.create raising anthropic.APIError
ApiError == [kind |-> "api_error", stop_reason |-> "", content |-> << >>]
\* client.messages.create raising an exception that is no APIError
OtherError == [kind |-> "exception", stop_reason |-> "", content |-> << >>]

AnswerText == Plain("answer", 6)
ThoughtText == Plain("thought", 7)
BlankText == Plain("blank", 2)

\* Responses that end a turn: stop_reason is not "tool_use"
TerminalResponses ==
    { Response("end_turn", << TextBlock(AnswerText) >>) }
        \cup (IF scope \in {"batch", "turn"}
              THEN { Response("end_turn", << TextBlock(BlankText) >>),
                     Response("end_turn", << TextBlock(ThoughtText), TextBlock(AnswerText) >>) }
              ELSE {})

\* Tool-use responses of a long session: one gated call, or none at all; after a
\* wallet setup, one gated call or one verification asked for as an ordinary tool
CoarseToolUses ==
    { Response("tool_use", << TextBlock(ThoughtText),
                              ToolUseBlock(1, "search_forum", {<< "q", "x" >>}) >>) }
        \cup (IF scope = "auth"
              THEN { Response("tool_use",
                         << ToolUseBlock(1, "verify_wallet_signature",
                                {<< "address", "0xA" >>, << "signature", "0xS" >>}) >>) }
              ELSE { Response("tool_use", << TextBlock(AnswerText) >>) })

\* The calls a rich tool-use response chooses among
RichCalls ==
    { [name |-> "get_wallet_challenge", input |-> {<< "address", "0xA" >>}],
      [name |-> "verify_wallet_signature",
       input |-> {<< "address", "0xA" >>, << "signature", "0xS" >>}],
      [name |-> "search_forum", input |-> {<< "q", "x" >>}] }

\* The content of a response that carries the calls cs, with call ids 1..Len(cs)
CallsContent(cs) ==
    [i \in 1..Len(cs) |-> ToolUseBlock(i, cs[i].name, cs[i].input)]

RichToolUses ==
    { Response("tool_use", CallsContent(cs)) :
        cs \in UNION { [1..n -> RichCalls] : n \in 1..MaxBlocks } }

\* What client.messages.create may answer
LLMOutcomes(first) ==
    {ApiError, OtherError} \cup TerminalResponses
        \cup (IF scope = "batch" THEN (IF first THEN RichToolUses ELSE {})
              ELSE CoarseToolUses)

\* A CallToolResult with the given content items, or an exception raised by call_tool
ToolOk(content) == [kind |-> "ok", content |-> content, msg |-> << >>]
ToolRaise(msg) == [kind |-> "raise", content |-> << >>, msg |-> msg]

TextItem(t) == [type |-> "text", text |-> t]

\* The server's answer to a verification: a JSON text that carries a fresh auth_token
FreshToken == "tokB"
TokenResult == ToolOk(<< TextItem(Plain("{\"auth_token\": \"tokB\"}", 22)) >>)

ToolOutcomes ==
    IF scope = "auth" THEN { TokenResult }
    ELSE { ToolOk(<< TextItem(Plain("payload", ResultLimit)) >>) }
            \cup (IF scope = "batch"
                  THEN { ToolOk(<< TextItem(Plain("payload", ResultLimit + 1)) >>),
                         ToolOk(<< >>), ToolRaise(Plain("boom", 4)) }
                  ELSE {})

\* What input() may return to the chat loop
UserInputs ==
    IF scope \in {"batch", "turn", "auth"} /\ messages # << >> THEN {"", "exit"}
    ELSE {"", "exit", "hello"}

-----------------------------------------------------------------------------
(* anthropic_client.py: the tool-use handler *)

\* async def extract_text_content(result)
extract_text_content(result) ==
    LET texts == SelectSeq(result.content, LAMBDA c : c.type = "text")
    IN  IF texts # << >> THEN texts[1].text
        ELSE Plain("[No text returned by tool]", 26)

\* if len(result_text) > 500: result_text = result_text[:500] + "..."
Concise(result_text) ==
    IF TextLen(result_text) > ResultLimit
    THEN Take(result_text, ResultLimit) \o Lit("...", 3)
    ELSE result_text

\* A faulty variant: the handler cuts its window where the turn start does
KeepLast10_At15(msgs) == IF Len(msgs) > 15 THEN SliceLast(msgs, 15) ELSE msgs

\* if len(messages) > 10: messages = messages[-10:]
KeepLast10(msgs) == IF Len(msgs) > 10 THEN SliceLast(msgs, 10) ELSE msgs

\* if len(messages) > 15: messages = messages[-15:]
KeepLast15(msgs) == IF Len(msgs) > 15 THEN SliceLast(msgs, 15) ELSE msgs

\* A faulty variant: the token is added whatever the tool's name
InjectToken_AnyTool(tool_name, tool_input, token) ==
    IF Truthy(token) THEN SetKey(tool_input, "auth_token", token) ELSE tool_input

\* if auth_token and tool_name not in {...}: tool_input["auth_token"] = auth_token
InjectToken(tool_name, tool_input, token) ==
    IF Truthy(token) /\ tool_name \notin ExemptTools
    THEN SetKey(tool_input, "auth_token", token)
    ELSE tool_input

\* A faulty variant: the except branch builds its result without the error flag
ToolResult_Unflagged(tool_use_id, out) ==
    [type |-> "tool_result", tool_use_id |-> tool_use_id,
     content |-> IF out.kind = "ok" THEN Concise(extract_text_content(out))
                 ELSE Lit("Tool error: ", 12) \o out.msg]

\* The tool_result of one invocation: the try branch and the except branch
ToolResult(tool_use_id, out) ==
    IF out.kind = "ok"
    THEN [type |-> "tool_result", tool_use_id |-> tool_use_id,
          content |-> Concise(extract_text_content(out))]
    ELSE [type |-> "tool_result", tool_use_id |-> tool_use_id,
          content |-> Lit("Tool error: ", 12) \o out.msg, is_error |-> TRUE]

Bump(n, cap) == Min(n + 1, cap)

\* A faulty variant: every response is taken for a tool-use one
MoreToolCalls_Always(r) == TRUE

\* if response.stop_reason == "tool_use" / if final_response.stop_reason == "tool_use"
MoreToolCalls(r) == r.stop_reason = "tool_use"

\* The count of the turn's tool-use responses after response r
CountToolUse(n, r) ==
    IF r.kind = "response" /\ r.stop_reason = "tool_use" THEN Bump(n, MaxRounds) ELSE n

\* A faulty variant: the handler prints the final text even when it is blank, as hybrid_chat does
PrintFinal_Always(printed, content) == Append(printed, FinalText(content))

\* final_text = ...; if final_text.strip(): print(f"\nAssistant: {final_text}")
PrintFinal(printed, content) ==
    IF IsBlank(FinalText(content)) THEN printed ELSE Append(printed, FinalText(content))

\* The handler's locals once it has returned
HandlerIdle ==
    /\ h_messages' = << >>
    /\ assistant_message' = NoMsg
    /\ all_results' = << >>
    /\ idx' = 0

\* handle_tool_use_response, from its entry to its first await or its return
HandlerEntry(msgs, amsg) ==
    LET kept == KeepLast10(msgs)
    IN  IF ToolUseBlocks(amsg.content) = << >>
        THEN /\ messages' = Append(kept, amsg)
             /\ HandlerIdle
             /\ pc' = "input"
        ELSE /\ h_messages' = kept
             /\ assistant_message' = amsg
             /\ all_results' = << >>
             /\ idx' = 1
             /\ pc' = "tool"
             /\ UNCHANGED messages

\* A faulty variant: the calls of a batch are all started before any is awaited
AfterStart_NoAwait(last) == IF last THEN "tool_wait" ELSE "tool"

\* result = await session.call_tool(...): the handler is suspended until the call is over
AfterStart(last) == "tool_wait"

\* The token of the session once the tool name has answered out. A session that took
\* the answer of a verification for its new token:
SessionToken_Adopting(token, name, out) ==
    IF name = "verify_wallet_signature" /\ out = TokenResult THEN FreshToken ELSE token

\* auth_token is a parameter of hybrid_chat and a field of the OpenAI context that
\* neither the handler nor the wrapper assigns: the answer of a tool does not reach it
SessionToken(token, name, out) == token

\* "for block in tool_use_blocks": the next block's call is made
CallToolStart ==
    /\ pc = "tool"
    /\ idx <= Len(ToolUseBlocks(assistant_message.content))
    /\ UNCHANGED << pruneVars, authVars, choiceVars >>
    /\ LET content == assistant_message.content
           at == ToolUsePositions(content, 1)[idx]
           block == content[at]
           tool_input == InjectToken(block.name, block.input, auth_token)
       IN  \* tool_input is block.input itself: the assignment shows in the block
           /\ assistant_message' =
                  [assistant_message EXCEPT !.content[at].input = tool_input]
           /\ toolLog' = Append(toolLog, [name |-> block.name, args |-> tool_input])
           /\ idx' = idx + 1
           /\ pc' = AfterStart(idx = Len(ToolUseBlocks(content)))
    /\ UNCHANGED << scope, client, auth_token, messages, user_message, h_messages,
                    all_results, sent, lastResp, firstResp, rounds, calls, toolResps,
                    apiErrors, surfaced, outcomeLog, exitCause, o_invoke >>

\* The call returns or raises: its tool_result is appended, the loop goes on or ends
CallTool ==
    /\ pc = "tool_wait"
    /\ UNCHANGED << pruneVars, authVars, choiceVars >>
    /\ LET content == assistant_message.content
           k == Len(all_results) + 1
           block == content[ToolUsePositions(content, 1)[k]]
           last == k = Len(ToolUseBlocks(content))
       IN  \E out \in ToolOutcomes :
             /\ all_results' = Append(all_results, ToolResult(block.id, out))
             /\ outcomeLog' = Append(outcomeLog, out)
             /\ pc' = IF last THEN "llm2" ELSE "tool"
             /\ rounds' = IF last THEN Bump(rounds, MaxRounds) ELSE rounds
             /\ auth_token' = SessionToken(auth_token, block.name, out)
    /\ UNCHANGED << scope, client, messages, user_message, h_messages,
                    assistant_message, idx, toolLog, sent, lastResp, firstResp, calls,
                    toolResps, apiErrors, surfaced, exitCause, o_invoke >>

\* The rest of handle_tool_use_response: the exchange is appended, the LLM is called again
FollowUpLLM ==
    /\ pc = "llm2"
    /\ UNCHANGED << pruneVars, authVars, choiceVars >>
    /\ LET exchange == h_messages \o << assistant_message,
                                        [role |-> "user", content |-> all_results] >>
       IN  \E r \in LLMOutcomes(FALSE) :
             /\ sent' = exchange
             /\ lastResp' = r
             /\ calls' = Bump(calls, MaxRounds + 1)
             /\ toolResps' = CountToolUse(toolResps, r)
             /\ CASE r.kind = "api_error" ->
                       /\ messages' = exchange
                       /\ HandlerIdle
                       /\ pc' = "input"
                       /\ apiErrors' = TRUE
                       /\ UNCHANGED << toolLog, outcomeLog, surfaced, exitCause >>
                  [] r.kind = "exception" ->
                       /\ HandlerIdle
                       /\ pc' = "ended"
                       /\ exitCause' = "llm_exception"
                       /\ UNCHANGED << messages, toolLog, outcomeLog, surfaced, apiErrors >>
                  [] r.kind = "response" /\ MoreToolCalls(r) ->
                       /\ HandlerEntry(exchange, [role |-> "assistant", content |-> r.content])
                       /\ toolLog' = << >>
                       /\ outcomeLog' = << >>
                       /\ UNCHANGED << surfaced, apiErrors, exitCause >>
                  [] OTHER ->
                       /\ messages' = Append(exchange,
                                             [role |-> "assistant", content |-> r.content])
                       /\ HandlerIdle
                       /\ pc' = "input"
                       /\ surfaced' = PrintFinal(surfaced, r.content)
                       /\ UNCHANGED << toolLog, outcomeLog, apiErrors, exitCause >>
    /\ UNCHANGED << scope, client, auth_token, user_message, firstResp, rounds, o_invoke >>

-----------------------------------------------------------------------------
(* anthropic_client.py: hybrid_chat *)

\* input() and the code up to session.list_tools()
ReadInput ==
    /\ pc = "input"
    /\ UNCHANGED << pruneVars, authVars, choiceVars >>
    /\ \E user_input \in UserInputs :
         CASE user_input = "" -> UNCHANGED vars
           [] user_input = "exit" ->
                /\ pc' = "ended"
                /\ exitCause' = "quit"
                /\ UNCHANGED << scope, client, auth_token, messages, user_message,
                                h_messages, assistant_message, all_results, idx, sent,
                                lastResp, firstResp, rounds, calls, toolResps, apiErrors,
                                surfaced, toolLog, outcomeLog, o_invoke >>
           [] OTHER ->
                /\ messages' = KeepLast15(messages)
                /\ user_message' = [role |-> "user",
                                    content |-> << TextBlock(Plain(user_input, 5)) >>]
                /\ pc' = "list_tools"
                /\ sent' = << >>
                /\ lastResp' = NoResp
                /\ firstResp' = NoResp
                /\ rounds' = 0
                /\ calls' = 0
                /\ toolResps' = 0
                /\ apiErrors' = FALSE
                /\ surfaced' = << >>
                /\ toolLog' = << >>
                /\ outcomeLog' = << >>
                /\ UNCHANGED << scope, client, auth_token, h_messages, assistant_message,
                                all_results, idx, exitCause, o_invoke >>

\* session.list_tools() returns or raises; it raises no anthropic.APIError
ListTools ==
    /\ pc = "list_tools"
    /\ UNCHANGED << pruneVars, authVars, choiceVars >>
    /\ \E ok \in BOOLEAN :
         IF ok
         THEN pc' = "llm" /\ UNCHANGED exitCause
         ELSE pc' = "ended" /\ exitCause' = "list_tools_exception"
    /\ UNCHANGED << scope, client, auth_token, messages, user_message, h_messages,
                    assistant_message, all_results, idx, sent, lastResp, firstResp,
                    rounds, calls, toolResps, apiErrors, surfaced, toolLog, outcomeLog,
                    o_invoke >>

\* A faulty variant: the request is built by appending the user turn to the store
StoreAfterRequest_Appending(msgs, umsg) == Append(msgs, umsg)

\* messages=messages + [user_message]: the request is a new list, the store is as it was
StoreAfterRequest(msgs, umsg) == msgs

\* The first client.messages.create of a turn and the code that follows it
FirstLLM ==
    /\ pc = "llm"
    /\ UNCHANGED << pruneVars, authVars, choiceVars >>
    /\ \E r \in LLMOutcomes(TRUE) :
         /\ sent' = Append(messages, user_message)
         /\ lastResp' = r
         /\ firstResp' = r
         /\ calls' = Bump(calls, MaxRounds + 1)
         /\ toolResps' = CountToolUse(toolResps, r)
         /\ CASE r.kind = "api_error" ->
                   /\ messages' = StoreAfterRequest(messages, user_message)
                   /\ pc' = "input"
                   /\ apiErrors' = TRUE
                   /\ UNCHANGED << h_messages, assistant_message, all_results,
                                   idx, surfaced, exitCause >>
              [] r.kind = "exception" ->
                   /\ messages' = StoreAfterRequest(messages, user_message)
                   /\ pc' = "ended"
                   /\ exitCause' = "llm_exception"
                   /\ UNCHANGED << h_messages, assistant_message, all_results,
                                   idx, surfaced, apiErrors >>
              [] r.kind = "response" /\ MoreToolCalls(r) ->
                   /\ HandlerEntry(Append(messages, user_message),
                                   [role |-> "assistant", content |-> r.content])
                   /\ UNCHANGED << surfaced, apiErrors, exitCause >>
              [] OTHER ->
                   /\ messages' = messages \o << user_message,
                                                 [role |-> "assistant", content |-> r.content] >>
                   /\ pc' = "input"
                   /\ surfaced' = Append(surfaced, FinalText(r.content))
                   /\ UNCHANGED << h_messages, assistant_message, all_results, idx,
                                   apiErrors, exitCause >>
    /\ UNCHANGED << scope, client, auth_token, user_message, rounds, toolLog, outcomeLog,
                    o_invoke >>

-----------------------------------------------------------------------------
(* openai_client.py: the tool wrapper and the chat loop *)

NoInvoke == [tool |-> "", called |-> FALSE, kwargs |-> {}, out |-> ToolOk(<< >>),
             ret |-> << >>]

\* The tools of the server's catalog
ToolNames == {"get_wallet_challenge", "verify_wallet_signature", "search_forum"}

\* input_json as the Agents SDK passes it: empty, a JSON object, or text that is no JSON
InputJsons ==
    { [kind |-> "empty", value |-> {}],
      [kind |-> "json", value |-> {<< "q", "x" >>}],
      [kind |-> "bad", value |-> {}] }

\* What call_tool may answer to the wrapper
WrapperOutcomes ==
    ToolOutcomes
        \cup (IF scope = "batch"
              THEN { ToolOk(<< TextItem(Plain("payload", 3)), TextItem(Plain("more", 4)) >>) }
              ELSE {})

\* if tool.name not in {...}: kwargs["auth_token"] = ctx.context.auth_token
WrapperKwargs(tool_name, kwargs, token) ==
    IF tool_name \notin ExemptTools THEN SetKey(kwargs, "auth_token", token) ELSE kwargs

\* content_item.model_dump_json(): the item's text inside its JSON envelope
ItemJson(item) == Lit("{\"type\":\"text\",\"text\":\"", 23) \o item.text \o Lit("\"}", 2)

RECURSIVE ItemsJson(_)
\* json.dumps([item.model_dump() for item in result.content])
ItemsJson(items) ==
    IF items = << >> THEN << >>
    ELSE ItemJson(Head(items))
           \o (IF Len(items) > 1 THEN Lit(", ", 2) ELSE << >>) \o ItemsJson(Tail(items))

\* The string on_invoke_tool returns for a CallToolResult or an exception of call_tool
WrapperReturn(out) ==
    IF out.kind = "raise" THEN Lit("Error running tool: ", 20) \o out.msg
    ELSE IF Len(out.content) = 1 THEN ItemJson(out.content[1])
    ELSE IF Len(out.content) > 1 THEN Lit("[", 1) \o ItemsJson(out.content) \o Lit("]", 1)
    ELSE Lit("Error running tool.", 19)

\* input() of the OpenAI chat loop and the start of Runner.run
OReadInput ==
    /\ pc = "o_input"
    /\ UNCHANGED << pruneVars, authVars, choiceVars >>
    /\ \E user_input \in {"", "exit", "hello"} :
         CASE user_input = "" -> UNCHANGED vars
           [] user_input = "exit" ->
                /\ pc' = "ended"
                /\ exitCause' = "quit"
                /\ UNCHANGED o_invoke
           [] OTHER ->
                /\ pc' = "o_run"
                /\ o_invoke' = NoInvoke
                /\ UNCHANGED exitCause
    /\ UNCHANGED << scope, client, auth_token, messages, user_message, h_messages,
                    assistant_message, all_results, idx, sent, lastResp, firstResp,
                    rounds, calls, toolResps, apiErrors, surfaced, toolLog, outcomeLog >>

\* on_invoke_tool, called by the Agents SDK during Runner.run
OInvokeTool ==
    /\ pc = "o_run"
    /\ UNCHANGED << pruneVars, authVars, choiceVars >>
    /\ \E name \in ToolNames, input_json \in InputJsons, out \in WrapperOutcomes :
         IF input_json.kind = "bad"
         THEN /\ o_invoke' = [tool |-> name, called |-> FALSE, kwargs |-> {},
                              out |-> ToolOk(<< >>),
                              ret |-> Lit("Error running tool: ", 20)
                                          \o Plain("JSONDecodeError", 15)]
              /\ UNCHANGED auth_token
         ELSE LET kwargs == WrapperKwargs(name, input_json.value, auth_token)
              IN  /\ o_invoke' = [tool |-> name, called |-> TRUE, kwargs |-> kwargs,
                                  out |-> out, ret |-> WrapperReturn(out)]
                  /\ auth_token' = SessionToken(auth_token, name, out)
    /\ UNCHANGED << scope, client, pc, messages, user_message, h_messages,
                    assistant_message, all_results, idx, sent, lastResp, firstResp,
                    rounds, calls, toolResps, apiErrors, surfaced, toolLog, outcomeLog,
                    exitCause >>

\* Runner.run returns its final output or raises; "except Exception" reports and goes on
ORunEnd ==
    /\ pc = "o_run"
    /\ UNCHANGED << pruneVars, authVars, choiceVars >>
    /\ \E raised \in BOOLEAN :
         /\ apiErrors' = raised
         /\ surfaced' = IF raised THEN << >> ELSE << AnswerText >>
    /\ pc' = "o_input"
    /\ UNCHANGED << scope, client, auth_token, messages, user_message, h_messages,
                    assistant_message, all_results, idx, sent, lastResp, firstResp,
                    rounds, calls, toolResps, toolLog, outcomeLog, exitCause, o_invoke >>

-----------------------------------------------------------------------------
(* anthropic_client.py: prune_conversation *)

\* Longest window handed to prune_conversation
MaxWindow == 5
\* Largest max_messages
MaxCap == 3
\* Most prune_conversation calls on one window
MaxPrunes == 2

\* Lines of older_content kept in the summary
SummaryKeep == 5
\* Characters of an assistant's text kept in its summary line
ResponsePrefix == 100

Message(role, content) == [role |-> role, content |-> content]
ToolResultBlock(id, content) ==
    [type |-> "tool_result", tool_use_id |-> id, content |-> content]

\* The dict messages a window is made of: a user's text, an assistant's text (longer
\* than the summary keeps), an assistant's tool request, the user turn with its result
WindowTurns ==
    { Message("user", << TextBlock(Plain("question", 8)) >>),
      Message("assistant", << TextBlock(Plain("reply", 150)) >>),
      Message("assistant", << TextBlock(ThoughtText),
                              ToolUseBlock(1, "search_forum", {<< "q", "x" >>}) >>),
      Message("user", << ToolResultBlock(1, Plain("result", 20)) >>) }

\* any(c["type"] == "tool_use" for c in msg["content"])
has_tools(msg) == \E i \in 1..Len(msg.content) : msg.content[i].type = "tool_use"

\* The lines one older message adds to older_content
SummaryLinesOf(msg) ==
    IF msg.role = "user"
    THEN LET texts == TextsOf(msg.content)
         IN [i \in 1..Len(texts) |-> Lit("User asked: ", 12) \o texts[i]]
    ELSE IF msg.role = "assistant"
    THEN IF has_tools(msg)
         THEN << Lit("Assistant used tools to fulfill request", 39) >>
         ELSE LET texts == TextsOf(msg.content)
              IN IF texts # << >>
                 THEN << Lit("Assistant responded: ", 21) \o Take(texts[1], ResponsePrefix)
                            \o Lit("...", 3) >>
                 ELSE << >>
    ELSE << >>

RECURSIVE older_content(_)
\* older_content after the loop over older_messages
older_content(older) ==
    IF older = << >> THEN << >>
    ELSE SummaryLinesOf(Head(older)) \o older_content(Tail(older))

\* A summary_message that keeps every line of older_content
summary_message_AllLines(lines) ==
    Message("system",
            << TextBlock(Lit("Previous conversation summary:\n", 31) \o JoinNL(lines)) >>)

summary_message(lines) ==
    Message("system",
            << TextBlock(Lit("Previous conversation summary:\n", 31)
                            \o JoinNL(SliceLast(lines, SummaryKeep))) >>)

\* prune_conversation past its early return: the split, the summary, the result
Summarised(msgs, max_messages) ==
    LET recent_messages == SliceLast(msgs, max_messages)
        older_messages == SliceButLast(msgs, max_messages)
        lines == older_content(older_messages)
    IN IF lines # << >>
       THEN << summary_message(lines) >> \o recent_messages
       ELSE recent_messages

\* A prune_conversation that keeps one turn fewer than max_messages
prune_conversation_OneFewer(msgs, max_messages) ==
    IF max_messages = 0 \/ Len(msgs) <= max_messages - 1 THEN msgs
    ELSE Summarised(msgs, max_messages - 1)

prune_conversation(msgs, max_messages) ==
    IF Len(msgs) <= max_messages THEN msgs
    ELSE Summarised(msgs, max_messages)

\* One call messages = prune_conversation(messages, max_messages)
Prune ==
    /\ pc = "prune"
    /\ p_runs < MaxPrunes
    /\ p_before' = p_messages
    /\ p_messages' = prune_conversation(p_messages, p_cap)
    /\ p_runs' = p_runs + 1
    /\ UNCHANGED << scope, client, auth_token, pc, exitCause, chatVars, authVars,
                    choiceVars, p_cap >>

-----------------------------------------------------------------------------
(* Startup: wallet setup and authentication, in both clients *)

\* What session.call_tool gave an authenticator: nothing yet, an exception, None, a result
Unasked == [kind |-> "unasked", content |-> << >>]
CallRaises == [kind |-> "raise", content |-> << >>]
CallAbsent == [kind |-> "absent", content |-> << >>]
CallResult(content) == [kind |-> "result", content |-> content]

\* The authenticator has not returned
NotReturned == "<not returned>"

\* A text that json.loads rejects, and one it turns into the dict data
NotJson == [parses |-> FALSE, data |-> {}]
JsonDoc(data) == [parses |-> TRUE, data |-> data]

ChallengeMessage == "Sign in to the forum"

\* What get_wallet_challenge may answer
ChallengeAnswers ==
    { CallRaises, CallAbsent, CallResult(<< >>), CallResult(<< TextItem(NotJson) >>) }
        \cup { CallResult(<< TextItem(JsonDoc(d)) >>) :
                 d \in { {},
                         {<< "content", << >> >>},
                         {<< "content", << {} >> >>},
                         {<< "content", << {<< "text", "" >>} >> >>},
                         {<< "content", << {<< "text", ChallengeMessage >>} >> >>} } }

\* What verify_wallet_signature may answer
VerifyAnswers ==
    { CallRaises, CallAbsent, CallResult(<< >>), CallResult(<< TextItem(NotJson) >>) }
        \cup { CallResult(<< TextItem(JsonDoc(d)) >>) :
                 d \in { {<< "error", "bad signature" >>},
                         {<< "auth_token", PyNone >>},
                         {<< "auth_token", "" >>},
                         {<< "auth_token", "tokA" >>} } }

\* How a block of statements ends: an exception, a return, or on to the signing
Raise == [kind |-> "raise", value |-> PyNone]
Return(v) == [kind |-> "return", value |-> v]
Proceed(msg) == [kind |-> "sign", value |-> msg]

\* d.get(k, default)
GetOr(d, k, default) == IF k \in Keys(d) THEN Get(d, k) ELSE default

\* A faulty variant: the challenge message is signed without the test that it is not empty
ChallengeParse_Unchecked(doc) ==
    IF ~doc.parses THEN Raise
    ELSE LET challenge_items == GetOr(doc.data, "content", << >>)
         IN IF challenge_items = << >> THEN Return(PyNone)
            ELSE Proceed(GetOr(challenge_items[1], "text", ""))

\* challenge_data.get("content", []) down to the check of challenge_msg
ChallengeParse(doc) ==
    IF ~doc.parses THEN Raise
    ELSE LET challenge_items == GetOr(doc.data, "content", << >>)
         IN IF challenge_items = << >> THEN Return(PyNone)
            ELSE LET challenge_msg == GetOr(challenge_items[1], "text", "")
                 IN IF challenge_msg = "" THEN Return(PyNone) ELSE Proceed(challenge_msg)

\* anthropic_client.py verify_wallet_with_signature, the try block up to the signing
A_ChallengeBody(ans) ==
    IF ans.kind = "raise" THEN Raise
    ELSE IF ans.kind = "absent" \/ ans.content = << >> THEN Raise
    ELSE ChallengeParse(ans.content[1].text)

\* openai_client.py verify_wallet, the try block up to the signing
O_ChallengeBody(ans) ==
    IF ans.kind = "raise" THEN Raise
    ELSE IF ans.kind = "absent" \/ ans.content = << >> THEN Return(PyNone)
    ELSE ChallengeParse(ans.content[1].text)

\* A faulty variant: any answer of the verification counts as a grant
A_VerifyBody_AnyAnswer(ans) ==
    IF ans.kind = "raise" THEN Raise ELSE Return("tokA")

\* anthropic_client.py verify_wallet_with_signature, the try block after the second call
A_VerifyBody(ans) ==
    IF ans.kind = "raise" THEN Raise
    ELSE IF ans.kind = "absent" \/ ans.content = << >> THEN Raise
    ELSE LET doc == ans.content[1].text
         IN IF ~doc.parses THEN Raise ELSE Return(GetOr(doc.data, "auth_token", PyNone))

\* openai_client.py verify_wallet, the try block after the second call
O_VerifyBody(ans) ==
    IF ans.kind = "raise" THEN Raise
    ELSE IF ans.kind = "absent" \/ ans.content = << >> THEN Return(PyNone)
    ELSE LET doc == ans.content[1].text
         IN IF ~doc.parses THEN Raise ELSE Return(GetOr(doc.data, "auth_token", PyNone))

\* A try block whose exceptions leave the function
Caught_Nothing(r) == r

\* except Exception as e: print(...); return None
Caught(r) == IF r.kind = "raise" THEN Return(PyNone) ELSE r

\* signed_message.signature.hex() for the challenge message
Signature(key, msg) == << "signature", key, msg >>

ToolCall(name, arguments) == [name |-> name, arguments |-> arguments]

\* What anthropic_client.py's main and setup_wallet print once the token is back
A_Report(path, token) ==
    IF path = "env" THEN (IF token = PyNone THEN "failed" ELSE "verified")
    ELSE IF path \in {"create", "import"}
    THEN (IF token # PyNone THEN "save_offered" ELSE "failed")
    ELSE "none"

\* What openai_client.py's main prints once the token is back
O_Report(path, token) ==
    IF path = "env" THEN (IF Truthy(token) THEN "verified" ELSE "failed")
    ELSE IF path \in {"create", "import"} /\ Truthy(token) THEN "save_offered"
    ELSE "none"

\* Where main goes once the wallet is set up: hybrid_chat, or the tool listing
AfterWallet == IF client = "anthropic" THEN "input" ELSE "o_tools"

\* An exception that leaves main
Exits(cause) ==
    /\ pc' = "ended"
    /\ exitCause' = cause

\* The authenticator returns token to main / setup_wallet
AuthReturns(token) ==
    /\ a_ret' = token
    /\ auth_token' = token
    /\ a_report' = IF client = "anthropic" THEN A_Report(a_path, token)
                   ELSE O_Report(a_path, token)
    /\ pc' = AfterWallet
    /\ UNCHANGED exitCause

\* main up to the first remote call of the authenticator, or past the wallet setup
Startup ==
    /\ pc = "start"
    /\ \E env_key \in {PyNone, "valid", "invalid"}, choice \in {"1", "2", "3", "4"},
          pasted \in {"valid", "invalid"} :
         LET path == IF Truthy(env_key) THEN "env"
                     ELSE IF choice = "1" THEN "create"
                     ELSE IF choice = "2" THEN "import"
                     ELSE IF choice = "3" THEN "address" ELSE "skip"
             key == IF path = "env" THEN env_key
                    ELSE IF path = "create" THEN "valid"
                    ELSE IF path = "import" THEN pasted ELSE PyNone
         IN /\ a_path' = path
            /\ private_key' = key
            /\ IF key = "invalid"
               THEN \* Account.from_key raises
                    /\ Exits("invalid_key")
                    /\ UNCHANGED << wallet_address, a_log >>
               ELSE IF key = PyNone
               THEN /\ wallet_address' = IF path = "address" THEN "0xTyped" ELSE PyNone
                    /\ pc' = AfterWallet
                    /\ UNCHANGED << exitCause, a_log >>
               ELSE /\ wallet_address' = "0xA"
                    /\ a_log' = << ToolCall("get_wallet_challenge",
                                            {<< "address", "0xA" >>}) >>
                    /\ pc' = "challenge"
                    /\ UNCHANGED exitCause
    /\ UNCHANGED << scope, client, auth_token, chatVars, pruneVars, choiceVars, a_challenge,
                    a_verify,
                    a_ret, a_report >>

\* get_wallet_challenge answers; the authenticator returns, or signs and calls on
AuthChallenge ==
    /\ pc = "challenge"
    /\ \E ans \in ChallengeAnswers :
         LET r == Caught(IF client = "anthropic" THEN A_ChallengeBody(ans)
                         ELSE O_ChallengeBody(ans))
         IN /\ a_challenge' = ans
            /\ CASE r.kind = "sign" ->
                      /\ a_log' = Append(a_log,
                             ToolCall("verify_wallet_signature",
                                      {<< "address", wallet_address >>,
                                       << "signature", Signature(private_key, r.value) >>}))
                      /\ pc' = "verify"
                      /\ UNCHANGED << auth_token, exitCause, a_ret, a_report >>
                 [] r.kind = "return" ->
                      /\ AuthReturns(r.value)
                      /\ UNCHANGED a_log
                 [] OTHER ->
                      /\ Exits("auth_exception")
                      /\ UNCHANGED << auth_token, a_log, a_ret, a_report >>
    /\ UNCHANGED << scope, client, chatVars, pruneVars, choiceVars, wallet_address,
                    private_key, a_path,
                    a_verify >>

\* verify_wallet_signature answers; the authenticator returns
AuthVerify ==
    /\ pc = "verify"
    /\ \E ans \in VerifyAnswers :
         LET r == Caught(IF client = "anthropic" THEN A_VerifyBody(ans)
                         ELSE O_VerifyBody(ans))
         IN /\ a_verify' = ans
            /\ IF r.kind = "return"
               THEN AuthReturns(r.value)
               ELSE /\ Exits("auth_exception")
                    /\ UNCHANGED << auth_token, a_ret, a_report >>
    /\ UNCHANGED << scope, client, chatVars, pruneVars, choiceVars, wallet_address,
                    private_key, a_path,
                    a_log, a_challenge >>

\* openai_client.py main, step 5: session.list_tools() before the agent is built
OStartupTools ==
    /\ pc = "o_tools"
    /\ \E raised \in BOOLEAN :
         IF raised THEN Exits("list_tools_exception")
         ELSE pc' = "o_input" /\ UNCHANGED exitCause
    /\ UNCHANGED << scope, client, auth_token, chatVars, pruneVars, authVars, choiceVars >>

-----------------------------------------------------------------------------
(* main.py: the choice of the client *)

MaxInputs == 3
MaxSetups == 2

ApiKeys == {"ANTHROPIC_API_KEY", "OPENAI_API_KEY"}

\* What the user may type at "Please select an AI assistant (1-3): "
MenuInputs == {"1", "2", "3", "x"}

\* check_env_vars: bool(os.getenv(name))
KeySet(name) == name \in env_keys

\* valid_choices: "1" and "2" when their key is set, and "3"
valid_choices(anthropic_set, openai_set) ==
    (IF anthropic_set THEN {"1"} ELSE {}) \cup (IF openai_set THEN {"2"} ELSE {}) \cup {"3"}

\* A faulty variant: every number of the menu is taken, whatever keys are set
ChoiceResult_AnyNumber(choice, anthropic_set, openai_set) ==
    IF choice = "1" THEN "anthropic"
    ELSE IF choice = "2" THEN "openai"
    ELSE IF choice = "3" THEN "exit" ELSE "retry"

\* What the loop body does with choice: return a client, exit, or prompt again
ChoiceResult(choice, anthropic_set, openai_set) ==
    IF choice \notin valid_choices(anthropic_set, openai_set) THEN "retry"
    ELSE IF choice = "1" /\ anthropic_set THEN "anthropic"
    ELSE IF choice = "2" /\ openai_set THEN "openai"
    ELSE IF choice = "3" THEN "exit"
    ELSE "retry"

\* No key is set: the user is offered setup_env_file, or the program exits with 1
OfferSetup ==
    /\ pc = "choice_top"
    /\ ~anthropic_key_set /\ ~openai_key_set
    /\ c_setups < MaxSetups
    /\ \E setup \in {"y", "n"} :
         IF setup = "y"
         THEN \E raised \in BOOLEAN, typed \in SUBSET ApiKeys :
                IF raised
                THEN \* setup_env_file could not read or write the .env file
                     /\ Exits("setup_exception")
                     /\ UNCHANGED << env_keys, anthropic_key_set, openai_key_set, c_setups >>
                ELSE \* load_dotenv(); check_env_vars()
                     /\ env_keys' = env_keys \cup typed
                     /\ anthropic_key_set' = ("ANTHROPIC_API_KEY" \in env_keys \cup typed)
                     /\ openai_key_set' = ("OPENAI_API_KEY" \in env_keys \cup typed)
                     /\ c_setups' = c_setups + 1
                     /\ pc' = "choice_menu"
                     /\ UNCHANGED exitCause
         ELSE /\ Exits("exit_1")
              /\ UNCHANGED << env_keys, anthropic_key_set, openai_key_set, c_setups >>
    /\ UNCHANGED << scope, client, auth_token, chatVars, pruneVars, authVars, c_inputs >>

\* The menu is printed and a choice is read: a client is returned, the program exits
\* with 0, or the loop starts over
ReadChoice ==
    /\ \/ pc = "choice_menu"
       \/ pc = "choice_top" /\ (anthropic_key_set \/ openai_key_set)
    /\ Len(c_inputs) < MaxInputs
    /\ \E choice \in MenuInputs :
         LET r == ChoiceResult(choice, anthropic_key_set, openai_key_set)
         IN /\ c_inputs' = Append(c_inputs, choice)
            /\ CASE r = "retry" -> pc' = "choice_top" /\ UNCHANGED << client, exitCause >>
                 [] r = "exit" -> Exits("exit_0") /\ UNCHANGED client
                 [] OTHER -> client' = r /\ pc' = "start" /\ UNCHANGED exitCause
    /\ UNCHANGED << scope, auth_token, chatVars, pruneVars, authVars, env_keys,
                    anthropic_key_set, openai_key_set, c_setups >>

-----------------------------------------------------------------------------
\* The variables of the chat, at rest
ChatAtRest ==
    /\ messages = << >>
    /\ user_message = NoMsg
    /\ h_messages = << >>
    /\ assistant_message = NoMsg
    /\ all_results = << >>
    /\ idx = 0
    /\ sent = << >>
    /\ lastResp = NoResp
    /\ firstResp = NoResp
    /\ rounds = 0
    /\ calls = 0
    /\ toolResps = 0
    /\ apiErrors = FALSE
    /\ surfaced = << >>
    /\ toolLog = << >>
    /\ outcomeLog = << >>
    /\ o_invoke = NoInvoke

\* prune_conversation is not in use
PruneAtRest ==
    /\ p_messages = << >>
    /\ p_before = << >>
    /\ p_cap = 0
    /\ p_runs = 0

\* get_client_choice has returned client
ChoiceAtRest ==
    /\ env_keys = {IF client = "anthropic" THEN "ANTHROPIC_API_KEY" ELSE "OPENAI_API_KEY"}
    /\ anthropic_key_set = (client = "anthropic")
    /\ openai_key_set = (client = "openai")
    /\ c_inputs = << >>
    /\ c_setups = 0

\* Startup has not run
AuthAtRest ==
    /\ wallet_address = PyNone
    /\ private_key = PyNone
    /\ a_path = "skip"
    /\ a_log = << >>
    /\ a_challenge = Unasked
    /\ a_verify = Unasked
    /\ a_ret = NotReturned
    /\ a_report = "none"

InitChat(sc) ==
    /\ scope = sc
    /\ client \in {"anthropic", "openai"}
    /\ auth_token \in (IF sc = "batch" THEN {PyNone, "", "tokA"} ELSE {PyNone, "tokA"})
    /\ pc = IF client = "anthropic" THEN "input" ELSE "o_input"
    /\ exitCause = "none"
    /\ ChatAtRest
    /\ PruneAtRest
    /\ AuthAtRest
    /\ ChoiceAtRest

Init == InitChat("session")

Next ==
    \/ ReadInput \/ ListTools \/ FirstLLM \/ CallToolStart \/ CallTool \/ FollowUpLLM
    \/ OReadInput \/ OInvokeTool \/ ORunEnd

Spec == Init /\ [][Next]_vars

BatchSpec == InitChat("batch") /\ [][Next]_vars

TurnSpec == InitChat("turn") /\ [][Next]_vars

\* The session's own steps are taken when they can be: the event loop runs the coroutine on
Fairness ==
    /\ WF_vars(ListTools) /\ WF_vars(FirstLLM) /\ WF_vars(CallToolStart)
    /\ WF_vars(CallTool) /\ WF_vars(FollowUpLLM)
    /\ WF_vars(ORunEnd)

LiveSpec == Init /\ [][Next]_vars /\ Fairness

\* Windows of dict messages and caps given to prune_conversation
InitPrune ==
    /\ scope = "prune"
    /\ client = "anthropic"
    /\ auth_token = PyNone
    /\ pc = "prune"
    /\ exitCause = "none"
    /\ ChatAtRest
    /\ AuthAtRest
    /\ ChoiceAtRest
    /\ p_messages \in UNION { [1..n -> WindowTurns] : n \in 0..MaxWindow }
    /\ p_before = << >>
    /\ p_cap \in 0..MaxCap
    /\ p_runs = 0

PruneNext == Prune

PruneSpec == InitPrune /\ [][PruneNext]_vars

\* Longest window of the summary's specification
MaxLong == 5
\* The default max_messages
DefaultCap == 10

\* A user turn of two text blocks
TwoBlockTurn ==
    Message("user", << TextBlock(Plain("question", 8)), TextBlock(Plain("detail", 6)) >>)

\* The i-th turn of an alternating text conversation u1, a1, u2, a2, ...
AlternatingTurn(i) ==
    IF i % 2 = 1 THEN Message("user", << TextBlock(Plain("question", i)) >>)
    ELSE Message("assistant", << TextBlock(Plain("reply", ResponsePrefix + i)) >>)

\* The alternating text conversation two turns longer than the default cap
AlternatingWindow == [i \in 1..(DefaultCap + 2) |-> AlternatingTurn(i)]

\* Windows whose older turns give many summary lines, and the alternating one
InitSummary ==
    /\ scope = "summary"
    /\ client = "anthropic"
    /\ auth_token = PyNone
    /\ pc = "prune"
    /\ exitCause = "none"
    /\ ChatAtRest
    /\ AuthAtRest
    /\ ChoiceAtRest
    /\ \/ /\ p_messages \in
                UNION { [1..n -> WindowTurns \cup {TwoBlockTurn}] : n \in 0..MaxLong }
          /\ p_cap \in 1..MaxCap
       \/ /\ p_messages = AlternatingWindow
          /\ p_cap = DefaultCap
    /\ p_before = << >>
    /\ p_runs = 0

SummarySpec == InitSummary /\ [][PruneNext]_vars

\* Either client, from the start of main
InitAuth ==
    /\ scope = "auth"
    /\ client \in {"anthropic", "openai"}
    /\ auth_token = PyNone
    /\ pc = "start"
    /\ exitCause = "none"
    /\ ChatAtRest
    /\ PruneAtRest
    /\ AuthAtRest
    /\ ChoiceAtRest

AuthNext ==
    \/ Startup \/ AuthChallenge \/ AuthVerify \/ OStartupTools
    \/ Next

AuthSpec == InitAuth /\ [][AuthNext]_vars

\* main.py's main calls get_client_choice with what check_env_vars found
InitChoice ==
    /\ scope = "choice"
    /\ client = "none"
    /\ auth_token = PyNone
    /\ pc = "choice_top"
    /\ exitCause = "none"
    /\ ChatAtRest
    /\ PruneAtRest
    /\ AuthAtRest
    /\ env_keys \in SUBSET ApiKeys
    /\ anthropic_key_set = KeySet("ANTHROPIC_API_KEY")
    /\ openai_key_set = KeySet("OPENAI_API_KEY")
    /\ c_inputs = << >>
    /\ c_setups = 0

ChoiceNext == OfferSetup \/ ReadChoice

ChoiceSpec == InitChoice /\ [][ChoiceNext]_vars

-----------------------------------------------------------------------------
(* Claims *)

\* The text a successful invocation must hand back: the first text item of the tool's
\* answer (or the placeholder), cut to 500 characters and "..." when longer
ExpectedPayload(out) ==
    LET texts == SelectSeq(out.content, LAMBDA c : c.type = "text")
        raw == IF texts = << >> THEN Plain("[No text returned by tool]", 26)
               ELSE texts[1].text
    IN  IF TextLen(raw) <= 500 THEN raw ELSE Take(raw, 500) \o Lit("...", 3)

\* results[i] answers blocks[i] with outcome outs[i]
ResultAnswers(result, block, out) ==
    /\ result.type = "tool_result"
    /\ result.tool_use_id = block.id
    /\ out.kind = "raise" =>
          /\ "is_error" \in DOMAIN result
          /\ result.is_error = TRUE
          /\ result.content = Lit("Tool error: ", 12) \o out.msg
    /\ out.kind = "ok" =>
          /\ "is_error" \notin DOMAIN result
          /\ result.content = ExpectedPayload(out)

\* C1: a response with N >= 1 tool_use blocks yields N tool results in one result turn,
\* in the blocks' order, the i-th with the i-th call id; an invocation that raised yields
\* an is_error result with the exception's message, one that succeeded yields its payload,
\* whatever its siblings did.
C1_BatchResilience ==
    client = "anthropic" =>
      LET blocks == ToolUseBlocks(firstResp.content) IN
      /\ (pc \in {"tool", "llm2"} /\ calls = 1) =>
            /\ Len(all_results) = Len(outcomeLog)
            /\ Len(all_results) = idx - 1
            /\ Len(all_results) <= Len(blocks)
            /\ \A i \in 1..Len(all_results) :
                  ResultAnswers(all_results[i], blocks[i], outcomeLog[i])
      /\ (pc = "llm2" /\ calls = 1) => Len(all_results) = Len(blocks)
      \* the follow-up call was sent the results as one turn after the assistant's turn
      /\ (calls = 2 /\ rounds = 1 /\ pc \notin {"tool", "tool_wait", "llm2"}) =>
            LET turn == sent[Len(sent)] IN
            /\ turn.role = "user"
            /\ Len(turn.content) = Len(blocks)
            /\ \A i \in 1..Len(blocks) :
                  ResultAnswers(turn.content[i], blocks[i], outcomeLog[i])
            /\ sent[Len(sent) - 1].role = "assistant"

\* A batch of three whose second invocation raised and whose first and third succeeded
C1_Witness ==
    /\ client = "anthropic"
    /\ calls = 2 /\ rounds = 1
    /\ Len(outcomeLog) = 3
    /\ outcomeLog[1].kind = "ok" /\ outcomeLog[2].kind = "raise" /\ outcomeLog[3].kind = "ok"
    /\ Len(sent[Len(sent)].content) = 3

\* A turn of the Anthropic client that ended on a response that is not tool-use, after
\* at least one tool-use response
TurnEndedOnText ==
    /\ client = "anthropic"
    /\ pc = "input"
    /\ lastResp.kind = "response"
    /\ lastResp.stop_reason # "tool_use"
    /\ toolResps >= 1

\* C2: a turn whose responses are k >= 1 tool-use responses and then one that is not
\* tool-use (no API error) runs exactly k tool rounds and k + 1 LLM calls and stops; the
\* only text surfaced is the joined text blocks of the final response (nothing when that
\* text is blank), none of it from the earlier tool-use responses.
C2_RecursionTermination ==
    TurnEndedOnText =>
        /\ ~apiErrors
        /\ rounds = toolResps
        /\ calls = toolResps + 1
        /\ h_messages = << >> /\ all_results = << >> /\ idx = 0
        /\ surfaced = IF IsBlank(FinalText(lastResp.content)) THEN << >>
                      ELSE << FinalText(lastResp.content) >>
        /\ messages[Len(messages)] = [role |-> "assistant", content |-> lastResp.content]

\* [tool-use, tool-use, text]: two rounds, three calls, one text
C2_Witness ==
    /\ TurnEndedOnText
    /\ toolResps = 2 /\ toolResps < MaxRounds
    /\ rounds = 2 /\ calls = 3
    /\ Len(surfaced) = 1

\* A session holds a token when auth_token is a non-empty string: the code tests
\* "if auth_token", and reports an empty one as "No token received"
HoldsToken == Truthy(auth_token)

\* C3: no auth_token is added to the arguments of get_wallet_challenge and
\* verify_wallet_signature, whatever the session's token; every other tool, when the
\* session holds a token, is passed auth_token equal to it: in the Anthropic handler
\* and in the OpenAI wrapper.
C3_TokenInjectionExemption ==
    /\ (client = "anthropic" /\ pc \in {"tool", "tool_wait", "llm2"}) =>
          \A i \in 1..Len(toolLog) :
              LET asked == ToolUseBlocks(lastResp.content)[i] IN
              /\ toolLog[i].name = asked.name
              /\ toolLog[i].name \in ExemptTools =>
                    /\ toolLog[i].args = asked.input
                    /\ "auth_token" \notin Keys(toolLog[i].args)
              /\ (toolLog[i].name \notin ExemptTools /\ HoldsToken) =>
                    /\ << "auth_token", auth_token >> \in toolLog[i].args
                    /\ \A p \in toolLog[i].args : p[1] = "auth_token" => p[2] = auth_token
    /\ (client = "openai" /\ o_invoke.called) =>
          /\ o_invoke.tool \in ExemptTools => "auth_token" \notin Keys(o_invoke.kwargs)
          /\ (o_invoke.tool \notin ExemptTools /\ HoldsToken) =>
                /\ << "auth_token", auth_token >> \in o_invoke.kwargs
                /\ \A p \in o_invoke.kwargs : p[1] = "auth_token" => p[2] = auth_token

\* One batch of a session that holds a token called an exempt tool and a gated one
C3_Witness ==
    /\ client = "anthropic" /\ pc = "llm2" /\ HoldsToken
    /\ \E i, j \in 1..Len(toolLog) :
          /\ toolLog[i].name = "verify_wallet_signature"
          /\ "auth_token" \notin Keys(toolLog[i].args)
          /\ toolLog[j].name = "search_forum"
          /\ << "auth_token", auth_token >> \in toolLog[j].args

IsResultTurn(m) ==
    /\ m.role = "user"
    /\ m.content # << >>
    /\ \A i \in 1..Len(m.content) : m.content[i].type = "tool_result"

RequestIds(m) ==
    { m.content[i].id : i \in { j \in 1..Len(m.content) : m.content[j].type = "tool_use" } }

\* Every tool-result turn of window w directly follows an assistant turn that holds
\* every call id it references
Linked(w) ==
    \A i \in 1..Len(w) :
        IsResultTurn(w[i]) =>
            /\ i > 1
            /\ w[i - 1].role = "assistant"
            /\ \A k \in 1..Len(w[i].content) :
                  w[i].content[k].tool_use_id \in RequestIds(w[i - 1])

\* C4: in the window as stored and as sent to the LLM, every tool-result turn directly
\* follows an assistant turn whose tool_use blocks include every call id it references.
C4_CallIdLinkage == Linked(messages) /\ Linked(h_messages) /\ Linked(sent)

\* The last c turns of window w
LastTurns(w, c) == SubSeq(w, Len(w) - c + 1, Len(w))

\* C5: pruning a well-formed window, whatever the cap, leaves no tool-result turn
\* without the assistant tool-request turn right before it: the recent segment never
\* begins with a tool-result turn whose request went into the older segment.
C5_PruneKeepsPairs == (p_runs >= 1 /\ Linked(p_before)) => Linked(p_messages)

\* C6: a window longer than the cap C comes back as its last C turns, with at most one
\* summary turn in front: at most C + 1 turns.
C6_PruneBounded ==
    (p_runs >= 1 /\ Len(p_before) > p_cap) =>
        /\ Len(p_messages) <= p_cap + 1
        /\ \/ p_messages = LastTurns(p_before, p_cap)
           \/ /\ p_messages # << >>
              /\ p_messages[1].role = "system"
              /\ Tail(p_messages) = LastTurns(p_before, p_cap)

\* C7: a window no longer than the cap comes back unchanged: the same turns in the
\* same order, and no summary turn.
C7_PruneNoOpAtOrBelowCap ==
    (p_runs >= 1 /\ Len(p_before) <= p_cap) => p_messages = p_before

C7_Witness ==
    /\ p_runs >= 1
    /\ p_cap >= 2
    /\ Len(p_before) = p_cap
    /\ p_messages = p_before

\* get_wallet_challenge raised, or gave absent or empty content, or a payload without
\* the nested content[0].text
ChallengeFailed ==
    \/ a_challenge.kind \in {"raise", "absent"}
    \/ /\ a_challenge.kind = "result"
       /\ \/ a_challenge.content = << >>
          \/ LET doc == a_challenge.content[1].text
             IN /\ doc.parses
                /\ \/ "content" \notin Keys(doc.data)
                   \/ Get(doc.data, "content") = << >>
                   \/ "text" \notin Keys(Get(doc.data, "content")[1])

\* verify_wallet_signature raised, or gave a payload without auth_token
VerificationFailed ==
    \/ a_verify.kind = "raise"
    \/ /\ a_verify.kind = "result"
       /\ a_verify.content # << >>
       /\ a_verify.content[1].text.parses
       /\ "auth_token" \notin Keys(a_verify.content[1].text.data)

\* C8: when the challenge or the verification fails, the authenticator has returned
\* None and raised nothing, and its caller has gone on, past the wallet setup, with no
\* token.
C8_AuthFailureNonFatal ==
    (ChallengeFailed \/ VerificationFailed) =>
        /\ a_ret = PyNone
        /\ auth_token = PyNone
        /\ exitCause # "auth_exception"
        /\ pc \notin {"start", "challenge", "verify"}

C8_Witness ==
    /\ a_verify.kind = "raise"
    /\ a_ret = PyNone
    /\ auth_token = PyNone
    /\ pc \in {"llm", "o_run"}

InTurn == pc \in {"list_tools", "llm", "tool", "tool_wait", "llm2"}

\* C9: a turn of the Anthropic client eventually reaches Done, whatever the LLM answers.
C9_TurnReachesDone == (client = "anthropic" /\ InTurn) ~> (pc \in {"input", "ended"})

\* C10: the chat loop is left by the user's exit only: no exception of the LLM call or
\* of the tool listing ends the session.
C10_ExceptionEndsTurnOnly == pc = "ended" => exitCause = "quit"

\* C11: a signing key that cannot be parsed, configured or pasted, never ends the
\* program: startup goes on to the chat without a token.
C11_InvalidKeyNonFatal == private_key = "invalid" => pc # "ended"

\* C12: when the session holds no token, the arguments passed to the remote tool for a
\* tool that is not exempt have no auth_token field at all, in the Anthropic handler and
\* in the OpenAI wrapper.
C12_TokenOmittedWhenAbsent ==
    auth_token = PyNone =>
        /\ (client = "anthropic" /\ pc \in {"tool", "tool_wait", "llm2"}) =>
              \A i \in 1..Len(toolLog) :
                  toolLog[i].name \notin ExemptTools =>
                      "auth_token" \notin Keys(toolLog[i].args)
        /\ (client = "openai" /\ o_invoke.called /\ o_invoke.tool \notin ExemptTools) =>
              "auth_token" \notin Keys(o_invoke.kwargs)

\* The session driver's cap on the window
WindowCap == 15

\* C13: between turns the window held by the session is never longer than the cap,
\* whatever turns came before: plain, tool-using, or ended by an API error.
C13_WindowWithinCap ==
    (client = "anthropic" /\ pc = "input") => Len(messages) <= WindowCap

\* The handler's cap on the window
HandlerCap == 10

\* The window handle_tool_use_response is entered with
HandlerWindow ==
    IF pc = "llm" THEN Append(messages, user_message)
    ELSE h_messages \o << assistant_message, [role |-> "user", content |-> all_results] >>

\* C14: a window that exceeds the cap just before an LLM call, at the start of a turn or
\* on entering a further tool round, is replaced by prune_conversation's result: a
\* summary turn for the older turns, then the recent ones.
C14_PruneBeforeLLMCall ==
    [][ /\ (client = "anthropic" /\ pc = "input" /\ pc' = "list_tools"
               /\ Len(messages) > WindowCap)
            => messages' = prune_conversation(messages, WindowCap)
        /\ (client = "anthropic" /\ pc \in {"llm", "llm2"} /\ pc' = "tool"
               /\ Len(HandlerWindow) > HandlerCap)
            => h_messages' = prune_conversation(HandlerWindow, HandlerCap) ]_vars

\* The turns of window w before its last c
OlderTurns(w, c) == SubSeq(w, 1, Len(w) - c)

\* C15: a window longer than the cap C comes back as one summary turn followed by
\* exactly its last C turns in their order, or, when the older turns yield no summary
\* line, as exactly its last C turns; the summary turn is first and is the only new one.
C15_PruneStructure ==
    (p_runs >= 1 /\ Len(p_before) > p_cap) =>
        IF older_content(OlderTurns(p_before, p_cap)) # << >>
        THEN /\ Len(p_messages) = p_cap + 1
             /\ p_messages[1].role = "system"
             /\ p_messages[1] \notin { p_before[i] : i \in 1..Len(p_before) }
             /\ Tail(p_messages) = LastTurns(p_before, p_cap)
        ELSE p_messages = LastTurns(p_before, p_cap)

RECURSIVE LinesOfBlocks(_)
\* One 'User asked: ' line for each text block among the blocks
LinesOfBlocks(blocks) ==
    IF blocks = << >> THEN << >>
    ELSE (IF Head(blocks).type = "text"
          THEN << Lit("User asked: ", 12) \o Head(blocks).text >>
          ELSE << >>) \o LinesOfBlocks(Tail(blocks))

RECURSIVE FirstTextOf(_)
\* The first text block among the blocks
FirstTextOf(blocks) ==
    IF Head(blocks).type = "text" THEN Head(blocks).text ELSE FirstTextOf(Tail(blocks))

RECURSIVE ExpectedLines(_)
\* The summary lines the turns give: a line per text block of a user turn, one fixed line
\* for an assistant turn with a tool invocation, one line with the first 100 characters
\* of the first text block for an assistant turn of text only
ExpectedLines(turns) ==
    IF turns = << >> THEN << >>
    ELSE LET t == Head(turns)
             uses == \E i \in 1..Len(t.content) : t.content[i].type = "tool_use"
             texts == \E i \in 1..Len(t.content) : t.content[i].type = "text"
         IN (IF t.role = "user" THEN LinesOfBlocks(t.content)
             ELSE IF t.role = "assistant" /\ uses
             THEN << Lit("Assistant used tools to fulfill request", 39) >>
             ELSE IF t.role = "assistant" /\ texts
             THEN << Lit("Assistant responded: ", 21)
                        \o Take(FirstTextOf(t.content), 100) \o Lit("...", 3) >>
             ELSE << >>) \o ExpectedLines(Tail(turns))

\* The last n elements of s, all of s when it has fewer
LastOf(s, n) == IF Len(s) <= n THEN s ELSE SubSeq(s, Len(s) - n + 1, Len(s))

\* C16: the summary turn is built from the older turns only: the last 5, in their order,
\* of the lines they give. The 12-turn alternating text window with cap 10 comes back as
\* 11 turns whose summary holds the two lines of u1 and a1.
C16_SummaryContent ==
    (p_runs >= 1 /\ Len(p_before) > p_cap
        /\ ExpectedLines(OlderTurns(p_before, p_cap)) # << >>) =>
        /\ p_messages # << >>
        /\ p_messages[1] =
              Message("system",
                      << TextBlock(Lit("Previous conversation summary:\n", 31)
                            \o JoinNL(LastOf(ExpectedLines(OlderTurns(p_before, p_cap)), 5))) >>)
        /\ (p_runs = 1 /\ p_before = AlternatingWindow) =>
              /\ Len(p_messages) = 11
              /\ ExpectedLines(OlderTurns(p_before, p_cap)) =
                    << Lit("User asked: ", 12) \o Plain("question", 1),
                       Lit("Assistant responded: ", 21) \o Plain("reply", 100)
                          \o Lit("...", 3) >>

\* Six lines from three two-block user turns: the first line is left out
C16_Witness ==
    /\ p_runs = 1
    /\ Len(p_before) > p_cap
    /\ Len(ExpectedLines(OlderTurns(p_before, p_cap))) = 6
    /\ Len(p_messages) = p_cap + 1
    /\ p_messages[1].role = "system"

\* C17: when the first response of a user turn is not tool-use, the store grows by
\* exactly the user turn and then the assistant turn, no tool is invoked and no further
\* LLM call is made: the turn is over.
C17_TerminalBookkeeping ==
    [][ (client = "anthropic" /\ pc = "llm" /\ lastResp'.kind = "response"
            /\ lastResp'.stop_reason # "tool_use") =>
           /\ messages' = messages \o << user_message,
                                         [role |-> "assistant",
                                          content |-> lastResp'.content] >>
           /\ pc' = "input"
           /\ calls' = 1
           /\ rounds' = 0
           /\ toolLog' = << >> ]_vars

\* A second plain turn is over: four turns stored, one LLM call in it, no tool
C17_Witness ==
    /\ client = "anthropic" /\ pc = "input"
    /\ firstResp.kind = "response" /\ firstResp.stop_reason # "tool_use"
    /\ Len(messages) = 4
    /\ messages[3] = user_message
    /\ messages[4] = [role |-> "assistant", content |-> firstResp.content]
    /\ calls = 1 /\ toolLog = << >>

\* C18: the text of a successful invocation that goes back to the model is at most 503
\* characters long: the payload itself when it has at most 500, its first 500 and "..."
\* otherwise; in the Anthropic handler and in the OpenAI wrapper.
C18_ResultTruncation ==
    /\ (client = "anthropic" /\ pc \in {"tool", "tool_wait", "llm2"}) =>
          \A i \in 1..Len(all_results) :
              outcomeLog[i].kind = "ok" =>
                  /\ TextLen(all_results[i].content) <= ResultLimit + 3
                  /\ all_results[i].content = ExpectedPayload(outcomeLog[i])
    /\ (client = "openai" /\ o_invoke.called /\ o_invoke.out.kind = "ok") =>
          TextLen(o_invoke.ret) <= ResultLimit + 3

\* Remote tool invocations of the handler that are started and not yet over
InFlight == Len(toolLog) - Len(outcomeLog)

\* C19: the invocations of a batch start in the order of their blocks, the next one
\* only when the one before has returned or raised: never two in flight; and the
\* follow-up LLM call starts only when every invocation of the batch is over.
C19_SequentialBatch ==
    client = "anthropic" =>
        /\ InFlight \in {0, 1}
        /\ pc \in {"tool", "tool_wait", "llm2"} =>
              LET blocks == ToolUseBlocks(assistant_message.content) IN
              /\ Len(toolLog) <= Len(blocks)
              /\ \A i \in 1..Len(toolLog) : toolLog[i].name = blocks[i].name
              /\ \A i \in 1..Len(all_results) : all_results[i].tool_use_id = blocks[i].id
              /\ pc = "tool" => InFlight = 0
              /\ pc = "tool_wait" => InFlight = 1
              /\ pc = "llm2" => (InFlight = 0 /\ Len(outcomeLog) = Len(blocks))
        /\ pc \notin {"tool", "tool_wait", "llm2"} => InFlight = 0

\* The second invocation of a batch of three is in flight, the first is over
C19_Witness ==
    /\ client = "anthropic" /\ pc = "tool_wait"
    /\ Len(ToolUseBlocks(assistant_message.content)) = 3
    /\ Len(toolLog) = 2 /\ Len(outcomeLog) = 1

\* The challenge message an answer of get_wallet_challenge carries, "" when it has none
MessageIn(ans) ==
    IF ans.kind # "result" \/ ans.content = << >> THEN ""
    ELSE LET doc == ans.content[1].text
         IN IF ~doc.parses \/ "content" \notin Keys(doc.data) THEN ""
            ELSE LET items == Get(doc.data, "content")
                 IN IF items = << >> \/ "text" \notin Keys(items[1]) THEN ""
                    ELSE Get(items[1], "text")

\* The authenticator's calls of the tool name
CallsOf(name) == { i \in 1..Len(a_log) : a_log[i].name = name }

\* C20: in a run of the authenticator get_wallet_challenge is invoked once, first;
\* verify_wallet_signature is invoked at most once, and only after the challenge tool
\* answered with a non-empty message, with that message's signature and the same address;
\* when the challenge step fails or gives an empty message it is never invoked.
C20_AuthProtocolOrder ==
    /\ Cardinality(CallsOf("verify_wallet_signature")) <= 1
    /\ Cardinality(CallsOf("get_wallet_challenge")) <= 1
    /\ Len(a_log) <= 2
    /\ (pc \in {"challenge", "verify"} \/ a_ret # NotReturned) =>
          /\ a_log # << >>
          /\ a_log[1] = ToolCall("get_wallet_challenge", {<< "address", wallet_address >>})
    /\ CallsOf("verify_wallet_signature") # {} =>
          /\ a_challenge # Unasked
          /\ MessageIn(a_challenge) # ""
          /\ a_log[2] = ToolCall("verify_wallet_signature",
                                 {<< "address", wallet_address >>,
                                  << "signature",
                                     Signature(private_key, MessageIn(a_challenge)) >>})
    /\ (a_challenge # Unasked /\ MessageIn(a_challenge) = "") =>
          /\ CallsOf("verify_wallet_signature") = {}
          /\ a_ret = PyNone
    /\ a_verify # Unasked => Len(a_log) = 2

\* A full run: challenge, signature, verification, token
C20_Witness ==
    /\ Len(a_log) = 2
    /\ a_log[2].name = "verify_wallet_signature"
    /\ a_ret = "tokA"
    /\ pc \in {"input", "o_tools"}


-----------------------------------------------------------------------------
\* The token the session started its chat loop with: what the authenticator returned,
\* or none when no authentication ran
StartToken == IF a_ret = NotReturned THEN PyNone ELSE a_ret

\* The steps of main before the chat loop
SetupPcs == {"start", "challenge", "verify"}

\* C21: once the chat loop has started no step changes the session's token or its
\* wallet address, and every auth_token passed to a tool is the token the session
\* started with, also after the model called verify_wallet_signature as an ordinary
\* tool and the server answered with a fresh auth_token.
C21_TokenReadOnly ==
    /\ [][pc \notin SetupPcs =>
              /\ auth_token' = auth_token
              /\ wallet_address' = wallet_address]_vars
    /\ [](pc \notin SetupPcs =>
              /\ auth_token = StartToken
              /\ \A i \in 1..Len(toolLog) : \A p \in toolLog[i].args :
                     p[1] = "auth_token" => p[2] = StartToken
              /\ \A p \in o_invoke.kwargs : p[1] = "auth_token" => p[2] = StartToken)

\* A session that holds a token asked for a verification as an ordinary tool, and the
\* server answered with a fresh token
C21_Witness ==
    /\ client = "anthropic" /\ pc = "llm2" /\ auth_token = "tokA"
    /\ Len(toolLog) = 1 /\ toolLog[1].name = "verify_wallet_signature"
    /\ outcomeLog = << TokenResult >>


-----------------------------------------------------------------------------
\* The auth_token of the document the verification tool answered the authenticator
\* with, PyNone when it answered none
VerifiedToken ==
    IF a_verify = Unasked \/ a_verify.kind # "result" \/ a_verify.content = << >> THEN PyNone
    ELSE LET doc == a_verify.content[1].text
         IN  IF doc.parses THEN GetOr(doc.data, "auth_token", PyNone) ELSE PyNone

\* The authenticator ran its three steps for this session's address: the challenge was
\* asked for, it carried a message, the message was signed with the session's key and
\* the signature was sent for verification
ProtocolCompleted ==
    /\ private_key = "valid"
    /\ Len(a_log) = 2
    /\ a_log[1] = ToolCall("get_wallet_challenge", {<< "address", wallet_address >>})
    /\ a_log[2] = ToolCall("verify_wallet_signature",
                           {<< "address", wallet_address >>,
                            << "signature", Signature(private_key, ChallengeMessage) >>})
    /\ a_verify # Unasked

\* The values passed to tools under the key auth_token since the turn began
InjectedTokens ==
    { p[2] : p \in { q \in UNION { toolLog[i].args : i \in 1..Len(toolLog) } :
                       q[1] = "auth_token" } }
        \cup { p[2] : p \in { q \in o_invoke.kwargs : q[1] = "auth_token" } }

\* C22: a token passed to a tool is the auth_token the verification tool returned to
\* the authenticator of this session for its address; a session set up with an address
\* only, or with the wallet setup skipped, holds no token; a session that holds one was
\* given a signing key and completed the challenge, signature, verification protocol.
C22_NoFabricatedAuthorization ==
    pc \notin SetupPcs =>
        /\ \A v \in InjectedTokens : v = auth_token
        /\ a_path \in {"address", "skip"} => auth_token = PyNone
        /\ auth_token # PyNone =>
              /\ a_path \in {"env", "create", "import"}
              /\ ProtocolCompleted
              /\ auth_token = VerifiedToken

\* A session that imported a key and was granted a token passed it to a gated tool
C22_Witness ==
    /\ client = "anthropic" /\ pc = "llm2" /\ a_path = "import"
    /\ auth_token = "tokA" /\ InjectedTokens = {"tokA"}


-----------------------------------------------------------------------------
\* The argument values of the tool-invocation blocks of the assistant turns of window
ArgumentValues(window) ==
    UNION { UNION { { p[2] : p \in window[i].content[j].input } :
                      j \in { k \in 1..Len(window[i].content) :
                                window[i].content[k].type = "tool_use" } } :
              i \in { k \in 1..Len(window) : window[k].role = "assistant" } }

\* C23: the session's token is no argument value of a tool-invocation block of any turn
\* sent to the LLM or kept in the store: the injection reaches the arguments of the
\* remote call only.
C23_TokenNotInConversation ==
    (client = "anthropic" /\ HoldsToken) =>
        /\ auth_token \notin ArgumentValues(sent)
        /\ auth_token \notin ArgumentValues(messages)


-----------------------------------------------------------------------------
\* A turn typed by the user: role "user" and text blocks only
RealUserTurn(m) ==
    /\ m.role = "user"
    /\ \A j \in 1..Len(m.content) : m.content[j].type = "text"

\* C24: every window sent to the LLM begins with a turn typed by the user, neither an
\* assistant turn nor a turn that carries tool results, whatever turns and cuts to the
\* last 10 or the last 15 turns came before.
C24_WindowStartsWithUser ==
    (client = "anthropic" /\ sent # << >>) => RealUserTurn(sent[1])


-----------------------------------------------------------------------------
\* C25: the first LLM call of a user turn is sent at most 16 turns, the stored 15 at
\* most and the new user turn; every call made after a tool round is sent at most 12,
\* the 10 kept at most, the tool-request turn and its result turn, whatever the number
\* of rounds.
C25_BoundedRequestSize ==
    [][ /\ (client = "anthropic" /\ pc = "llm") => Len(sent') <= WindowCap + 1
        /\ (client = "anthropic" /\ pc = "llm2") => Len(sent') <= HandlerCap + 2 ]_vars

\* A third round of a turn was sent a full window of 12 turns
C25_Witness ==
    /\ client = "anthropic" /\ calls >= 3 /\ rounds >= 2
    /\ Len(sent) = HandlerCap + 2


-----------------------------------------------------------------------------
\* C26: when the first LLM call of a user turn fails with an API error the store is
\* after the turn what it was before the call, with neither the user turn nor an
\* assistant turn added; no tool is invoked and the session goes on to the next input.
C26_FailedFirstCallKeepsStore ==
    [][ (client = "anthropic" /\ pc = "llm" /\ lastResp'.kind = "api_error") =>
           /\ messages' = messages
           /\ toolLog' = << >>
           /\ pc' = "input"
           /\ exitCause' = "none" ]_vars

\* The first call of a later turn failed: the store still holds the earlier turns only
C26_Witness ==
    /\ client = "anthropic" /\ pc = "input"
    /\ calls = 1 /\ lastResp.kind = "api_error"
    /\ Len(messages) >= 2 /\ user_message \notin { messages[i] : i \in 1..Len(messages) }
    /\ toolLog = << >> /\ exitCause = "none"


-----------------------------------------------------------------------------
\* C27: when an LLM call made after a tool round fails with an API error the turn is
\* over and nothing is rolled back: the store keeps the turn's user turn, and ends with
\* the tool-request turn and its tool-result turn; the calls already made stay made,
\* and the session goes on to the next input.
C27_NoRollbackOnFailedFollowUp ==
    [][ (client = "anthropic" /\ pc = "llm2" /\ lastResp'.kind = "api_error") =>
           /\ \E i \in 1..Len(messages') : messages'[i] = user_message
           /\ Len(messages') >= 3
           /\ messages'[Len(messages') - 1] = assistant_message
           /\ messages'[Len(messages')] = [role |-> "user", content |-> all_results]
           /\ IsResultTurn(messages'[Len(messages')])
           /\ toolLog' = toolLog /\ outcomeLog' = outcomeLog
           /\ pc' = "input"
           /\ exitCause' = "none" ]_vars


-----------------------------------------------------------------------------
\* C28: the authenticator returns None or a non-empty token, None when the verification
\* answered an empty auth_token; the startup reports the wallet as verified only when
\* the session holds a token that is injected into gated calls.
C28_NonEmptyTokenOrNone ==
    a_ret # NotReturned =>
        /\ a_ret = PyNone \/ Truthy(a_ret)
        /\ a_report = "verified" => HoldsToken


-----------------------------------------------------------------------------
\* The window before the last prune is itself the result of a prune that produced a
\* summary turn: windows start without a system turn
PrunedWithSummary ==
    /\ p_runs = 2
    /\ p_before # << >>
    /\ p_before[1].role = "system"

\* C29: pruning again, with the same cap, the result of a prune that produced a summary
\* turn returns it unchanged: the summary turn is not discarded.
C29_SummarySurvivesReprune ==
    PrunedWithSummary => p_messages = p_before


-----------------------------------------------------------------------------
\* get_client_choice is running its loop
InChoiceLoop(p) == p \in {"choice_top", "choice_menu"}

\* C30: get_client_choice returns "anthropic" only when the Anthropic API key is set
\* and "openai" only when the OpenAI API key is set; an input that is not a valid
\* choice at that moment leads to a new prompt, not to a return; the loop is left only
\* by returning such a client or by the end of the program.
C30_ChoiceRespectsKeys ==
    /\ [](scope = "choice" =>
            /\ client = "anthropic" => (anthropic_key_set /\ KeySet("ANTHROPIC_API_KEY"))
            /\ client = "openai" => (openai_key_set /\ KeySet("OPENAI_API_KEY"))
            /\ client # "none" => c_inputs[Len(c_inputs)] \in {"1", "2"})
    /\ [][ scope = "choice" =>
            /\ (c_inputs' # c_inputs
                   /\ c_inputs'[Len(c_inputs')]
                          \notin valid_choices(anthropic_key_set, openai_key_set))
                => (InChoiceLoop(pc') /\ client' = "none" /\ exitCause' = "none")
            /\ (InChoiceLoop(pc) /\ ~InChoiceLoop(pc'))
                => \/ pc' = "start" /\ client' \in {"anthropic", "openai"}
                   \/ pc' = "ended" /\ client' = "none" /\ exitCause' # "none" ]_vars

\* With the Anthropic key alone set, "2" and "x" were each answered with a new prompt
\* and "1" returned the Anthropic client
C30_Witness ==
    /\ scope = "choice" /\ pc = "start" /\ client = "anthropic"
    /\ env_keys = {"ANTHROPIC_API_KEY"}
    /\ c_inputs = << "2", "x", "1" >>

=============================================================================
